---- MODULE Spec2Model ----
(***************************************************************************)
(* Contextify: the progressive analysis event pipeline.                    *)
(*                                                                         *)
(*   - Severity Classifier      Dashboard.tsx, getSeverityFromIssues       *)
(*   - Reconciliation Engine    Dashboard.tsx, connectToSSE.onmessage      *)
(*   - Stream Publisher         the /rlm/stream/{repo_name} endpoint, as   *)
(*                              the design specification and               *)
(*                              SSE_IMPLEMENTATION.md describe it          *)
(*                                                                         *)
(* Each component has its own specifications over the shared variables:    *)
(* SpecClassify; SpecMerge, SpecHist, SpecDash; SpecPub, SpecPubLog,       *)
(* SpecConn; SpecPubFair, SpecPubPair; SpecImport (RepoImport).            *)
(***************************************************************************)
EXTENDS Integers, Sequences, FiniteSets, TLC

VARIABLES
    \* ---- Severity Classifier harness
    clsIn,          \* the issue list handed to getSeverityFromIssues
    clsOut,         \* its result, "none" before the call
    clsPerm,        \* a reordering of clsIn
    clsPermOut,     \* the result for the reordering, "none" before the call
    \* ---- Dashboard (Reconciliation Engine)
    nodes,          \* useState<FileNode[]>: sequence of node records
    edges,          \* useState<Edge[]>: sequence of edge records
    loading,        \* useState(true): the graph is being fetched
    error,          \* useState<string|null>: the fetch error shown, or absent
    mounted,        \* the Dashboard component is mounted
    fetchPc,        \* fetchGraph: "none", "awaiting" getGraph, "done", "failed"
    rlmStatus,      \* fetchGraph's const rlmStatus, read from localStorage
    rlmInProgress,  \* useState(false): the in-progress banner
    lsRlmInProgress,\* localStorage["rlmInProgress"]
    eventSourceRef, \* useRef<EventSource|null>: 0 is null, else a connection id
    esOpen,         \* connection id -> TRUE while the EventSource is not closed
    closeCalls,     \* connection id -> number of close() calls made on it
    lastData,       \* the payload of the message processed last
    repeated,       \* history: the last message repeated the one before it
    lastIssues,     \* history: per node, the issue list of the most recent
                    \* batch whose issues_by_file held the node's path
    lastOp,         \* history: the handler or step that ran last
    completions,    \* history: analysis_complete messages the handler processed
    teardowns,      \* history: connection id -> release paths run on it
    ignored,        \* history: the last message that reached a closed EventSource
    \* ---- Progress Register and Stream Publisher
    analysis_progress, \* the Progress Register: repo_name -> the latest record
    published,      \* number of publishes so far (the producer's clock)
    pubState,       \* "idle" (no request yet), "open", "closed"
    repoName,       \* the repo_name of the connection's request
    retries,        \* polling ticks elapsed on the connection
    lastTimestamp,  \* timestamp of the record delivered last on the connection
    emitted,        \* the events written to the connection, in order
    regAtOpen,      \* history: the Register held a record when the connection opened
    publishLog,     \* history: every publish, in order
    deliveredTs,    \* history: timestamps of the records written to the connection
    \* ---- a second connection to the Stream Publisher
    peerState,      \* "idle", "open", "closed", or "gone" (the client went away)
    peerRepo,       \* the repo_name of the second connection's request
    peerRetries,    \* polling ticks elapsed on the second connection
    peerLast,       \* timestamp of the record it delivered last
    peerEmitted,    \* the events written to it, in order
    \* ---- RepoImport
    analyzing,      \* useState(false): the progress view is shown
    currentStep,    \* useState(-1): the step the progress view is at
    progress,       \* useState(0): percent of the progress bar
    importError,    \* RepoImport's useState<string|null> error, or absent
    analysisStarted,\* useRef(false): a startAnalysis call is under way
    importMounted,  \* the RepoImport component is mounted
    calls,          \* the startAnalysis calls that got past the guard: for
                    \* each, where it stands and the repo_name it was answered
    currentRepo,    \* localStorage["currentRepo"]
    clicks,         \* history: startAnalysis invocations so far
    lastClick       \* history: "issued" or "ignored", the fate of the last one

clsVars  == <<clsIn, clsOut, clsPerm, clsPermOut>>
dashVars == <<nodes, rlmInProgress, lsRlmInProgress, eventSourceRef, esOpen,
              lastData, repeated>>
lifeVars == <<edges, loading, error, mounted, fetchPc, rlmStatus, closeCalls>>
histVars == <<lastIssues>>
opVars   == <<lastOp, completions, teardowns, ignored>>
pubVars  == <<analysis_progress, published, pubState, repoName, retries, lastTimestamp, emitted,
              regAtOpen>>
logVars  == <<publishLog, deliveredTs>>
peerVars == <<peerState, peerRepo, peerRetries, peerLast, peerEmitted>>
importVars == <<analyzing, currentStep, progress, importError, analysisStarted,
                importMounted, calls, currentRepo, clicks, lastClick>>
vars     == <<clsVars, dashVars, lifeVars, histVars, opVars, pubVars, logVars, peerVars,
              importVars>>

(***************************************************************************)
(* Bounds of the model.                                                    *)
(***************************************************************************)
MaxLen == 3         \* longest issue list handed to the classifier harness
MaxIssues == 2      \* longest issue list under one key of issues_by_file
MaxPublishes == 3   \* publishes the producer performs in one run
MaxSkew == 1        \* ticks one of two connections may be ahead of the other
MaxClicks == 4          \* startAnalysis invocations on one RepoImport
MaxConnections == 3     \* EventSources one Dashboard instance creates
MaxPairPublishes == 2   \* publishes while two connections are followed

NoValue == "<absent>"   \* undefined / absent optional field

(***************************************************************************)
(* Severity Classifier                                                     *)
(***************************************************************************)
Tiers == {"gray", "green", "yellow", "orange", "red", "purple"}

\* IssueRecord.severity: the three labels the classifier tests, and "low"
\* standing for every other label.
SeverityLabels == {"critical", "high", "medium", "low"}

\* A classifier that looks at the first issue only.
FirstIssueSeverity(issues) ==
    IF Len(issues) = 0 THEN "green"
    ELSE IF issues[1].severity = "critical" THEN "purple"
    ELSE IF issues[1].severity = "high" THEN "red"
    ELSE IF issues[1].severity = "medium" THEN "orange"
    ELSE "yellow"

\* A classifier that tests high before critical.
HighFirstSeverity(issues) ==
    IF Len(issues) = 0 THEN "green"
    ELSE IF \E i \in DOMAIN issues : issues[i].severity = "high" THEN "red"
    ELSE IF \E i \in DOMAIN issues : issues[i].severity = "critical" THEN "purple"
    ELSE IF \E i \in DOMAIN issues : issues[i].severity = "medium" THEN "orange"
    ELSE "yellow"

getSeverityFromIssues(issues) ==
    IF Len(issues) = 0 THEN "green"
    ELSE LET hasCritical == \E i \in DOMAIN issues : issues[i].severity = "critical"
             hasHigh     == \E i \in DOMAIN issues : issues[i].severity = "high"
             hasMedium   == \E i \in DOMAIN issues : issues[i].severity = "medium"
         IN  IF hasCritical THEN "purple"
             ELSE IF hasHigh THEN "red"
             ELSE IF hasMedium THEN "orange"
             ELSE "yellow"

ClsIssues == [severity : SeverityLabels, description : {"d1"}]
ClsLists == UNION {[1..n -> ClsIssues] : n \in 0..MaxLen}

\* The orders in which a list of n issues can be arranged.
Orderings(n) ==
    {f \in [1..n -> 1..n] : \A i, j \in 1..n : i # j => f[i] # f[j]}

\* The list with its issues in the order f.
Reorder(issues, f) == [i \in DOMAIN issues |-> issues[f[i]]]

ClsInit ==
    /\ clsIn \in ClsLists
    /\ clsOut = "none"
    /\ clsPerm = <<>>
    /\ clsPermOut = "none"

ClsIdle ==
    /\ clsIn = <<>>
    /\ clsOut = "none"
    /\ clsPerm = <<>>
    /\ clsPermOut = "none"

Classify ==
    /\ clsOut = "none"
    /\ clsOut' = getSeverityFromIssues(clsIn)
    /\ UNCHANGED <<clsIn, clsPerm, clsPermOut>>

ClassifyPermuted ==
    /\ clsPermOut = "none"
    /\ \E f \in Orderings(Len(clsIn)) :
          /\ clsPerm' = Reorder(clsIn, f)
          /\ clsPermOut' = getSeverityFromIssues(Reorder(clsIn, f))
    /\ UNCHANGED <<clsIn, clsOut>>

(***************************************************************************)
(* Reconciliation Engine: Dashboard.tsx, connectToSSE.onmessage            *)
(***************************************************************************)
\* Paths are sequences of tokens: a path segment, or one separator character.
PathABC   == <<"a", "\\", "b", "\\", "c.py">>   \* a node path with backslashes
KeyABC    == <<"a", "/", "b", "/", "c.py">>
PathApp   == <<"src", "/", "app.py">>
KeyApp    == <<"src", "/", "app.py">>
KeyAppBs  == <<"src", "\\", "app.py">>          \* a batch key with backslashes

\* A normalisation that leaves the path as it is.
KeepSeparators(path) == path

\* node.path.replace(/\\/g, '/')
Canon(path) == [i \in DOMAIN path |-> IF path[i] = "\\" THEN "/" ELSE path[i]]

\* The issue records batches carry.
IssueSql == [severity |-> "high", description |-> "SQL injection risk"]
IssueLow == [severity |-> "low", description |-> "unused import"]
MergeIssues == {IssueSql, IssueLow}
BatchLists == UNION {[1..n -> MergeIssues] : n \in 0..MaxIssues}

\* The key sets of issues_by_file: no file, one file, two files.
KeySets == {{}, {KeyABC}, {KeyApp}, {KeyAppBs}, {KeyABC, KeyApp}}

NoIssuesByFile == <<>>

BatchEvents ==
    {[type |-> "batch_complete", has_issues_by_file |-> TRUE, issues_by_file |-> f] :
        f \in UNION {[D -> BatchLists] : D \in KeySets}}

\* The event types that are not batch_complete.
OtherTypes == {"connected", "graph_building", "graph_complete", "collecting_files",
               "files_collected", "rlm_started", "analysis_complete", "stream_end",
               "timeout"}

\* Events without an issues_by_file field: a batch_complete that lacks it, and
\* every other type.
PlainEvents ==
    {[type |-> t, has_issues_by_file |-> FALSE, issues_by_file |-> NoIssuesByFile] :
        t \in OtherTypes \cup {"batch_complete"}}

\* A message whose data JSON.parse rejects.
Malformed ==
    [type |-> "<malformed>", has_issues_by_file |-> FALSE,
     issues_by_file |-> NoIssuesByFile]

\* Events of another type that carry an issues_by_file field all the same.
StrayEvents ==
    {[type |-> t, has_issues_by_file |-> TRUE,
      issues_by_file |-> [k \in {KeyApp} |-> <<IssueSql>>]] :
        t \in {"graph_complete", "analysis_complete"}}

Payloads == BatchEvents \cup PlainEvents \cup StrayEvents \cup {Malformed}

NoData == [type |-> "<none>", has_issues_by_file |-> FALSE,
           issues_by_file |-> NoIssuesByFile]

\* A merge that adds the batch's issue count to the node's.
AccumulatingNode(node, data) ==
    LET normalizedNodePath == Canon(node.path)
        found == normalizedNodePath \in DOMAIN data.issues_by_file
        fileIssues == IF found THEN data.issues_by_file[normalizedNodePath] ELSE <<>>
    IN  IF found /\ Len(fileIssues) > 0
        THEN [node EXCEPT !.severity = getSeverityFromIssues(fileIssues),
                          !.issues = node.issues + Len(fileIssues),
                          !.topIssue = fileIssues[1].description]
        ELSE [node EXCEPT !.severity = "green", !.issues = 0]

\* A merge that takes topIssue from the last issue of the list.
LastIssueNode(node, data) ==
    LET normalizedNodePath == Canon(node.path)
        found == normalizedNodePath \in DOMAIN data.issues_by_file
        fileIssues == IF found THEN data.issues_by_file[normalizedNodePath] ELSE <<>>
    IN  IF found /\ Len(fileIssues) > 0
        THEN [node EXCEPT !.severity = getSeverityFromIssues(fileIssues),
                          !.issues = Len(fileIssues),
                          !.topIssue = fileIssues[Len(fileIssues)].description]
        ELSE [node EXCEPT !.severity = "green", !.issues = 0]

\* A merge that also stores the normalised path in the node.
NormalisingNode(node, data) ==
    LET normalizedNodePath == Canon(node.path)
        found == normalizedNodePath \in DOMAIN data.issues_by_file
        fileIssues == IF found THEN data.issues_by_file[normalizedNodePath] ELSE <<>>
    IN  IF found /\ Len(fileIssues) > 0
        THEN [node EXCEPT !.path = normalizedNodePath,
                          !.severity = getSeverityFromIssues(fileIssues),
                          !.issues = Len(fileIssues),
                          !.topIssue = fileIssues[1].description]
        ELSE IF data.type = "batch_complete"
        THEN [node EXCEPT !.severity = "green", !.issues = 0]
        ELSE node

\* A merge whose reset branch recolours the node and keeps its count.
RecolourOnlyNode(node, data) ==
    LET normalizedNodePath == Canon(node.path)
        found == normalizedNodePath \in DOMAIN data.issues_by_file
        fileIssues == IF found THEN data.issues_by_file[normalizedNodePath] ELSE <<>>
    IN  IF found /\ Len(fileIssues) > 0
        THEN [node EXCEPT !.severity = getSeverityFromIssues(fileIssues),
                          !.issues = Len(fileIssues),
                          !.topIssue = fileIssues[1].description]
        ELSE IF data.type = "batch_complete"
        THEN [node EXCEPT !.severity = "green"]
        ELSE node

\* The body of prevNodes.map(node => ...), lines 132-157.
MergeNode(node, data) ==
    LET normalizedNodePath == Canon(node.path)
        found == normalizedNodePath \in DOMAIN data.issues_by_file
        fileIssues == IF found THEN data.issues_by_file[normalizedNodePath] ELSE <<>>
    IN  IF found /\ Len(fileIssues) > 0
        THEN [node EXCEPT !.severity = getSeverityFromIssues(fileIssues),
                          !.issues = Len(fileIssues),
                          !.topIssue = fileIssues[1].description]
        ELSE IF data.type = "batch_complete"
        THEN [node EXCEPT !.severity = "green", !.issues = 0]
        ELSE node

\* A merge that runs for every event that carries issues_by_file.
UntypedBatch(prevNodes, data) ==
    IF data.has_issues_by_file
    THEN [i \in DOMAIN prevNodes |-> MergeNode(prevNodes[i], data)]
    ELSE prevNodes

\* setNodes(prevNodes => prevNodes.map(...)), guarded by line 127.
MergeBatch(prevNodes, data) ==
    IF data.type = "batch_complete" /\ data.has_issues_by_file
    THEN [i \in DOMAIN prevNodes |-> MergeNode(prevNodes[i], data)]
    ELSE prevNodes

\* JSON.parse(event.data) succeeds.
Parses(payload) == payload.type # "<malformed>"

\* The snapshot getGraph returned, as fetchGraph stored it: two nodes, each as
\* not yet classified or as classified by an earlier analysis.
SnapshotStates ==
    {[severity |-> "gray", issues |-> 0, topIssue |-> NoValue],
     [severity |-> "yellow", issues |-> 1, topIssue |-> "legacy finding"]}

Snapshots ==
    {<<[id |-> "n1", path |-> PathABC, folder |-> "a\\b", size |-> 1,
        severity |-> s1.severity, issues |-> s1.issues, topIssue |-> s1.topIssue],
       [id |-> "n2", path |-> PathApp, folder |-> "src", size |-> 2,
        severity |-> s2.severity, issues |-> s2.issues, topIssue |-> s2.topIssue]>> :
        s1 \in SnapshotStates, s2 \in SnapshotStates}

\* data.edges.map(e => ({from, to})) of the snapshot.
SnapshotEdges == <<[from |-> "n1", to |-> "n2"]>>

NoList == <<[severity |-> "<none>", description |-> "<none>"]>>

\* The Dashboard after fetchGraph applied the snapshot and connectToSSE opened
\* connection 1 (rlmInProgress was "true" in localStorage).
DashInit ==
    /\ nodes \in Snapshots
    /\ rlmInProgress = TRUE
    /\ lsRlmInProgress = "true"
    /\ eventSourceRef = 1
    /\ esOpen = <<TRUE>>
    /\ lastData = NoData
    /\ repeated = FALSE
    /\ lastIssues = [i \in 1..2 |-> NoList]
    /\ edges = SnapshotEdges
    /\ loading = FALSE
    /\ error = NoValue
    /\ mounted = TRUE
    /\ fetchPc = "done"
    /\ rlmStatus = "true"
    /\ closeCalls = <<0>>
    /\ lastOp = "fetchGraph"
    /\ completions = 0
    /\ teardowns = <<0>>
    /\ ignored = NoData

DashIdle ==
    /\ nodes = <<>>
    /\ rlmInProgress = FALSE
    /\ lsRlmInProgress = "false"
    /\ eventSourceRef = 0
    /\ esOpen = <<>>
    /\ lastData = NoData
    /\ repeated = FALSE
    /\ lastIssues = <<>>
    /\ edges = <<>>
    /\ loading = TRUE
    /\ error = NoValue
    /\ mounted = FALSE
    /\ fetchPc = "none"
    /\ rlmStatus = NoValue
    /\ closeCalls = <<>>
    /\ lastOp = "none"
    /\ completions = 0
    /\ teardowns = <<>>
    /\ ignored = NoData

\* A handler that marks the analysis finished but leaves the stream open.
KeepOpenOnMessage(c, payload) ==
    /\ c \in DOMAIN esOpen
    /\ esOpen[c]
    /\ lastData' = payload
    /\ repeated' = (payload = lastData)
    /\ IF ~Parses(payload)
       THEN UNCHANGED <<nodes, rlmInProgress, lsRlmInProgress>>
       ELSE /\ nodes' = MergeBatch(nodes, payload)
            /\ IF payload.type = "analysis_complete"
               THEN /\ rlmInProgress' = FALSE
                    /\ lsRlmInProgress' = "false"
               ELSE UNCHANGED <<rlmInProgress, lsRlmInProgress>>
    /\ UNCHANGED <<eventSourceRef, esOpen, closeCalls>>
    /\ UNCHANGED <<edges, loading, error, mounted, fetchPc, rlmStatus>>

\* A handler that drops its reference on analysis_complete without close().
ForgetRefOnMessage(c, payload) ==
    /\ c \in DOMAIN esOpen
    /\ esOpen[c]
    /\ lastData' = payload
    /\ repeated' = (payload = lastData)
    /\ IF ~Parses(payload)
       THEN UNCHANGED <<nodes, rlmInProgress, lsRlmInProgress, eventSourceRef>>
       ELSE /\ nodes' = MergeBatch(nodes, payload)
            /\ IF payload.type = "analysis_complete"
               THEN /\ rlmInProgress' = FALSE
                    /\ lsRlmInProgress' = "false"
                    /\ eventSourceRef' = 0
               ELSE UNCHANGED <<rlmInProgress, lsRlmInProgress, eventSourceRef>>
    /\ UNCHANGED <<esOpen, closeCalls>>
    /\ UNCHANGED <<edges, loading, error, mounted, fetchPc, rlmStatus>>

\* A handler whose catch block closes the stream.
ClosingOnMessage(c, payload) ==
    /\ c \in DOMAIN esOpen
    /\ esOpen[c]
    /\ lastData' = payload
    /\ repeated' = (payload = lastData)
    /\ IF ~Parses(payload)
       THEN /\ esOpen' = [esOpen EXCEPT ![c] = FALSE]
            /\ closeCalls' = [closeCalls EXCEPT ![c] = @ + 1]
            /\ eventSourceRef' = 0
            /\ UNCHANGED <<nodes, rlmInProgress, lsRlmInProgress>>
       ELSE /\ nodes' = MergeBatch(nodes, payload)
            /\ IF payload.type = "analysis_complete"
               THEN /\ rlmInProgress' = FALSE
                    /\ lsRlmInProgress' = "false"
                    /\ IF eventSourceRef # 0
                       THEN /\ esOpen' = [esOpen EXCEPT ![eventSourceRef] = FALSE]
                            /\ closeCalls' = [closeCalls EXCEPT ![eventSourceRef] = @ + 1]
                            /\ eventSourceRef' = 0
                       ELSE UNCHANGED <<eventSourceRef, esOpen, closeCalls>>
               ELSE UNCHANGED <<rlmInProgress, lsRlmInProgress, eventSourceRef,
                                esOpen, closeCalls>>
    /\ UNCHANGED <<edges, loading, error, mounted, fetchPc, rlmStatus>>

\* eventSourceRef.current.onmessage, lines 121-174, for a message on
\* connection c.  A closed EventSource dispatches no message.
OnMessage(c, payload) ==
    /\ c \in DOMAIN esOpen
    /\ esOpen[c]
    /\ lastData' = payload
    /\ repeated' = (payload = lastData)
    /\ IF ~Parses(payload)
       THEN UNCHANGED <<nodes, rlmInProgress, lsRlmInProgress, eventSourceRef,
                        esOpen, closeCalls>>
       ELSE /\ nodes' = MergeBatch(nodes, payload)
            /\ IF payload.type = "analysis_complete"
               THEN /\ rlmInProgress' = FALSE
                    /\ lsRlmInProgress' = "false"
                    /\ IF eventSourceRef # 0
                       THEN /\ esOpen' = [esOpen EXCEPT ![eventSourceRef] = FALSE]
                            /\ closeCalls' = [closeCalls EXCEPT ![eventSourceRef] = @ + 1]
                            /\ eventSourceRef' = 0
                       ELSE UNCHANGED <<eventSourceRef, esOpen, closeCalls>>
               ELSE UNCHANGED <<rlmInProgress, lsRlmInProgress, eventSourceRef,
                                esOpen, closeCalls>>
    /\ UNCHANGED <<edges, loading, error, mounted, fetchPc, rlmStatus>>

\* History of a message the handler of connection c processed.
MessageHistory(c, payload) ==
    /\ lastOp' = "message"
    /\ completions' = IF payload.type = "analysis_complete"
                      THEN completions + 1 ELSE completions
    /\ teardowns' = IF payload.type = "analysis_complete"
                    THEN [teardowns EXCEPT ![c] = @ + 1] ELSE teardowns
    /\ UNCHANGED ignored

\* History: the issue list each node's path was last reported with.
RecordCover(payload) ==
    lastIssues' =
        [i \in DOMAIN lastIssues |->
            IF /\ Parses(payload)
               /\ payload.type = "batch_complete"
               /\ payload.has_issues_by_file
               /\ Canon(nodes[i].path) \in DOMAIN payload.issues_by_file
            THEN payload.issues_by_file[Canon(nodes[i].path)]
            ELSE lastIssues[i]]

Deliver ==
    \E payload \in Payloads :
        /\ OnMessage(1, payload)
        /\ MessageHistory(1, payload)
        /\ UNCHANGED lastIssues

DeliverRecorded ==
    \E payload \in Payloads :
        /\ OnMessage(1, payload)
        /\ MessageHistory(1, payload)
        /\ RecordCover(payload)

(***************************************************************************)
(* Dashboard life cycle: mount, fetchGraph, connectToSSE, onerror, unmount *)
(***************************************************************************)
\* mockNodes and mockEdges of @/data/mockData, the fallback graph.
MockNodes == <<[id |-> "mock", path |-> <<"mock.ts">>, folder |-> "", size |-> 1,
                severity |-> "red", issues |-> 1, topIssue |-> "mock finding"]>>
MockEdges == <<>>

\* What localStorage.getItem("rlmInProgress") can return.
RlmStatusValues == {"true", "false", NoValue}

\* The messages of the Error that getGraph throws, or of a failed fetch.
FetchErrors == {"Graph not found", "Unknown error", "Failed to fetch"}

\* The messages delivered during the life cycle: every event without
\* issues_by_file, the malformed one, and the batches about src/app.py.
LifePayloads ==
    PlainEvents \cup {Malformed}
        \cup {e \in BatchEvents : DOMAIN e.issues_by_file \subseteq {KeyApp}}

\* A Dashboard that subscribes as soon as it mounts, before getGraph returns.
EagerMounted ==
    /\ lsRlmInProgress \in RlmStatusValues
    /\ rlmStatus = lsRlmInProgress
    /\ rlmInProgress = (rlmStatus = "true")
    /\ eventSourceRef = IF rlmStatus = "true" THEN 1 ELSE 0
    /\ esOpen = IF rlmStatus = "true" THEN <<TRUE>> ELSE <<>>
    /\ closeCalls = IF rlmStatus = "true" THEN <<0>> ELSE <<>>
    /\ lastData = NoData
    /\ repeated = FALSE
    /\ lastIssues = <<>>
    /\ error = NoValue
    /\ mounted = TRUE
    /\ fetchPc = "awaiting"
    /\ nodes = <<>>
    /\ edges = <<>>
    /\ loading = TRUE
    /\ lastOp = "mount"
    /\ completions = 0
    /\ teardowns = IF rlmStatus = "true" THEN <<0>> ELSE <<>>
    /\ ignored = NoData

\* The Dashboard once mounted: the initial useState values, and fetchGraph run
\* up to its first await (or to its return when no repository is selected).
DashMounted ==
    /\ rlmInProgress = FALSE
    /\ lsRlmInProgress \in RlmStatusValues
    /\ rlmStatus = lsRlmInProgress
    /\ eventSourceRef = 0
    /\ esOpen = <<>>
    /\ closeCalls = <<>>
    /\ lastData = NoData
    /\ repeated = FALSE
    /\ lastIssues = <<>>
    /\ error = NoValue
    /\ mounted = TRUE
    /\ \/ /\ fetchPc = "awaiting"
          /\ nodes = <<>>
          /\ edges = <<>>
          /\ loading = TRUE
       \/ /\ fetchPc = "mock"
          /\ nodes = MockNodes
          /\ edges = MockEdges
          /\ loading = FALSE
    /\ lastOp = "mount"
    /\ completions = 0
    /\ teardowns = <<>>
    /\ ignored = NoData

\* A connectToSSE that stores the new EventSource without closing the one
\* it holds.
LeakyConnect ==
    /\ esOpen' = Append(esOpen, TRUE)
    /\ closeCalls' = Append(closeCalls, 0)
    /\ eventSourceRef' = Len(esOpen) + 1

\* connectToSSE, lines 113-119: close the current EventSource if there is
\* one, then store a new one in eventSourceRef.
ConnectToSSE ==
    /\ esOpen' = Append(IF eventSourceRef # 0
                        THEN [esOpen EXCEPT ![eventSourceRef] = FALSE]
                        ELSE esOpen, TRUE)
    /\ closeCalls' = Append(IF eventSourceRef # 0
                            THEN [closeCalls EXCEPT ![eventSourceRef] = @ + 1]
                            ELSE closeCalls, 0)
    /\ eventSourceRef' = Len(esOpen) + 1

\* fetchGraph after getGraph resolved with a snapshot: lines 61-89, 96-98.
FetchSucceeds(snapshot) ==
    /\ fetchPc = "awaiting"
    /\ fetchPc' = "done"
    /\ nodes' = snapshot
    /\ edges' = SnapshotEdges
    /\ error' = NoValue
    /\ IF rlmStatus = "true"
       THEN rlmInProgress' = TRUE /\ ConnectToSSE
       ELSE UNCHANGED <<rlmInProgress, eventSourceRef, esOpen, closeCalls>>
    /\ loading' = FALSE
    /\ UNCHANGED <<lsRlmInProgress, lastData, repeated, mounted, rlmStatus>>

\* A fetchGraph that subscribes whether or not the snapshot arrived.
FetchFailsConnects(message) ==
    /\ fetchPc = "awaiting"
    /\ fetchPc' = "failed"
    /\ error' = message
    /\ nodes' = MockNodes
    /\ edges' = MockEdges
    /\ loading' = FALSE
    /\ IF rlmStatus = "true"
       THEN rlmInProgress' = TRUE /\ ConnectToSSE
       ELSE UNCHANGED <<rlmInProgress, eventSourceRef, esOpen, closeCalls>>
    /\ UNCHANGED <<lsRlmInProgress, lastData, repeated, mounted, rlmStatus>>

\* fetchGraph after getGraph threw: the catch block, lines 90-95, and finally.
FetchFails(message) ==
    /\ fetchPc = "awaiting"
    /\ fetchPc' = "failed"
    /\ error' = message
    /\ nodes' = MockNodes
    /\ edges' = MockEdges
    /\ loading' = FALSE
    /\ UNCHANGED <<rlmInProgress, lsRlmInProgress, eventSourceRef, esOpen, closeCalls,
                   lastData, repeated, mounted, rlmStatus>>

\* An error handler that closes the stream and keeps its reference.
ErrorKeepsRef(c) ==
    /\ c \in DOMAIN esOpen
    /\ esOpen[c]
    /\ IF eventSourceRef # 0
       THEN /\ esOpen' = [esOpen EXCEPT ![eventSourceRef] = FALSE]
            /\ closeCalls' = [closeCalls EXCEPT ![eventSourceRef] = @ + 1]
       ELSE UNCHANGED <<esOpen, closeCalls>>
    /\ UNCHANGED <<eventSourceRef, nodes, rlmInProgress, lsRlmInProgress, lastData,
                   repeated, edges, loading, error, mounted, fetchPc, rlmStatus>>

\* An error handler that drops its reference and leaves the stream to the
\* browser, which keeps it open and reconnects.
ErrorForgetsRef(c) ==
    /\ c \in DOMAIN esOpen
    /\ esOpen[c]
    /\ eventSourceRef' = 0
    /\ UNCHANGED <<esOpen, closeCalls>>
    /\ UNCHANGED <<nodes, rlmInProgress, lsRlmInProgress, lastData, repeated,
                   edges, loading, error, mounted, fetchPc, rlmStatus>>

\* eventSourceRef.current.onerror, lines 176-182, for an error on connection
\* c.  A closed EventSource dispatches no error.
OnError(c) ==
    /\ c \in DOMAIN esOpen
    /\ esOpen[c]
    /\ IF eventSourceRef # 0
       THEN /\ esOpen' = [esOpen EXCEPT ![eventSourceRef] = FALSE]
            /\ closeCalls' = [closeCalls EXCEPT ![eventSourceRef] = @ + 1]
            /\ eventSourceRef' = 0
       ELSE UNCHANGED <<eventSourceRef, esOpen, closeCalls>>
    /\ UNCHANGED <<nodes, rlmInProgress, lsRlmInProgress, lastData, repeated,
                   edges, loading, error, mounted, fetchPc, rlmStatus>>

\* The cleanup the effect returns, lines 103-109, run when the Dashboard
\* unmounts.
Unmount ==
    /\ mounted
    /\ mounted' = FALSE
    /\ IF eventSourceRef # 0
       THEN /\ esOpen' = [esOpen EXCEPT ![eventSourceRef] = FALSE]
            /\ closeCalls' = [closeCalls EXCEPT ![eventSourceRef] = @ + 1]
            /\ eventSourceRef' = 0
       ELSE UNCHANGED <<eventSourceRef, esOpen, closeCalls>>
    /\ UNCHANGED <<nodes, rlmInProgress, lsRlmInProgress, lastData, repeated,
                   edges, loading, error, fetchPc, rlmStatus>>

\* A message reaches connection c after close(): the EventSource is CLOSED
\* and dispatches nothing, so no handler runs.
DropMessage(c, payload) ==
    /\ c \in DOMAIN esOpen
    /\ ~esOpen[c]
    /\ ignored' = payload
    /\ lastOp' = "drop"
    /\ UNCHANGED <<dashVars, lifeVars, completions, teardowns>>

(***************************************************************************)
(* RepoImport: startAnalysis and the analyzeRepo request                   *)
(***************************************************************************)
\* The messages of the Error analyzeRepo throws, or of a failed fetch.
ImportErrors == {"Unknown error", "Failed to fetch"}

\* RepoImport once mounted: the initial useState and useRef values.
ImportMounted ==
    /\ analyzing = FALSE
    /\ currentStep = -1
    /\ progress = 0
    /\ importError = NoValue
    /\ analysisStarted = FALSE
    /\ importMounted = TRUE
    /\ calls = <<>>
    /\ currentRepo = NoValue
    /\ clicks = 0
    /\ lastClick = "none"

\* No RepoImport is mounted.
ImportIdle ==
    /\ analyzing = FALSE
    /\ currentStep = -1
    /\ progress = 0
    /\ importError = NoValue
    /\ analysisStarted = FALSE
    /\ importMounted = FALSE
    /\ calls = <<>>
    /\ currentRepo = NoValue
    /\ clicks = 0
    /\ lastClick = "none"

\* A startAnalysis without the analysisStarted guard.
UnguardedStart ==
    /\ importMounted
    /\ analysisStarted' = TRUE
    /\ analyzing' = TRUE
    /\ currentStep' = 0
    /\ progress' = 25
    /\ importError' = NoValue
    /\ calls' = Append(calls, [pc |-> "awaiting", repo_name |-> NoValue])
    /\ UNCHANGED <<importMounted, currentRepo>>

\* startAnalysis up to its first await, lines 30-45: the click handler of the
\* button of a mounted RepoImport.  A call that finds analysisStarted set
\* returns at once; otherwise the request is issued.
StartAnalysis ==
    /\ importMounted
    /\ IF analysisStarted
       THEN UNCHANGED <<analysisStarted, analyzing, currentStep, progress, importError,
                        calls>>
       ELSE /\ analysisStarted' = TRUE
            /\ analyzing' = TRUE
            /\ currentStep' = 0
            /\ progress' = 25
            /\ importError' = NoValue
            /\ calls' = Append(calls, [pc |-> "awaiting", repo_name |-> NoValue])
    /\ UNCHANGED <<importMounted, currentRepo>>

\* analyzeRepo of call i resolved with repo_name: lines 45-52, up to the first
\* delay.  A state setter of an unmounted component changes nothing.
AnalyzeResolves(i, repo_name) ==
    /\ i \in DOMAIN calls
    /\ calls[i].pc = "awaiting"
    /\ calls' = [calls EXCEPT ![i] = [pc |-> "indexing", repo_name |-> repo_name]]
    /\ IF importMounted
       THEN currentStep' = 1 /\ progress' = 50
       ELSE UNCHANGED <<currentStep, progress>>
    /\ UNCHANGED <<analyzing, importError, analysisStarted, importMounted, currentRepo>>

\* A delay of call i elapsed: lines 54-58, then lines 60-68, which store the
\* repository name and start the timer of navigate.
DelayElapses(i) ==
    /\ i \in DOMAIN calls
    /\ \/ /\ calls[i].pc = "indexing"
          /\ calls' = [calls EXCEPT ![i].pc = "graphing"]
          /\ IF importMounted
             THEN currentStep' = 2 /\ progress' = 75
             ELSE UNCHANGED <<currentStep, progress>>
          /\ UNCHANGED currentRepo
       \/ /\ calls[i].pc = "graphing"
          /\ calls' = [calls EXCEPT ![i].pc = "navigating"]
          /\ IF importMounted
             THEN currentStep' = 3 /\ progress' = 100
             ELSE UNCHANGED <<currentStep, progress>>
          /\ currentRepo' = calls[i].repo_name
    /\ UNCHANGED <<analyzing, importError, analysisStarted, importMounted>>

\* navigate("/dashboard") of call i, line 68: the route changes, RepoImport
\* unmounts and its effect cleanup (lines 79-83) runs.
Navigate(i) ==
    /\ i \in DOMAIN calls
    /\ calls[i].pc = "navigating"
    /\ calls' = [calls EXCEPT ![i].pc = "done"]
    /\ importMounted' = FALSE
    /\ analysisStarted' = FALSE
    /\ UNCHANGED <<analyzing, currentStep, progress, importError, currentRepo>>

\* analyzeRepo of call i threw: the catch block, lines 69-75.
AnalyzeRejects(i, message) ==
    /\ i \in DOMAIN calls
    /\ calls[i].pc = "awaiting"
    /\ calls' = [calls EXCEPT ![i].pc = "failed"]
    /\ IF importMounted
       THEN /\ importError' = message
            /\ analyzing' = FALSE
            /\ currentStep' = -1
            /\ progress' = 0
       ELSE UNCHANGED <<importError, analyzing, currentStep, progress>>
    /\ analysisStarted' = FALSE
    /\ UNCHANGED <<importMounted, currentRepo>>

\* The user leaves the page: the effect cleanup, lines 79-83.
ImportUnmount ==
    /\ importMounted
    /\ importMounted' = FALSE
    /\ analysisStarted' = FALSE
    /\ UNCHANGED <<analyzing, currentStep, progress, importError, calls, currentRepo>>

(***************************************************************************)
(* Progress Register and Stream Publisher (GET /rlm/stream/{repo_name})    *)
(***************************************************************************)
max_retries == 180

RepoNames == {"flask", "django"}

\* The event types the producer publishes.
ProducerTypes == {"batch_complete", "analysis_complete"}

ConnectedEvent(repo_name) == [type |-> "connected", repo_name |-> repo_name]
StreamEnd == [type |-> "stream_end", repo_name |-> NoValue]
Timeout == [type |-> "timeout", repo_name |-> NoValue]

PubInit ==
    /\ analysis_progress = <<>>
    /\ published = 0
    /\ pubState = "idle"
    /\ repoName = NoValue
    /\ retries = 0
    /\ lastTimestamp = 0
    /\ emitted = <<>>
    /\ regAtOpen = FALSE
    /\ publishLog = <<>>
    /\ deliveredTs = <<>>
    /\ peerState = "idle"
    /\ peerRepo = NoValue
    /\ peerRetries = 0
    /\ peerLast = 0
    /\ peerEmitted = <<>>

\* A producer that stops publishing once a client has gone away.
HaltingPublish(key, type) ==
    /\ pubState # "gone"
    /\ published < MaxPublishes
    /\ published' = published + 1
    /\ analysis_progress' =
          [k \in DOMAIN analysis_progress \cup {key} |->
              IF k = key
              THEN [timestamp |-> published + 1,
                    data |-> [type |-> type, repo_name |-> key]]
              ELSE analysis_progress[k]]
    /\ UNCHANGED <<pubState, repoName, retries, lastTimestamp, emitted, regAtOpen>>

\* A register in which analysis_complete, once stored, stays.
StickyPublish(key, type) ==
    /\ published < MaxPublishes
    /\ published' = published + 1
    /\ analysis_progress' =
          [k \in DOMAIN analysis_progress \cup {key} |->
              IF /\ k = key
                 /\ ~(/\ key \in DOMAIN analysis_progress
                      /\ analysis_progress[key].data.type = "analysis_complete")
              THEN [timestamp |-> published + 1,
                    data |-> [type |-> type, repo_name |-> key]]
              ELSE analysis_progress[k]]
    /\ UNCHANGED <<pubState, repoName, retries, lastTimestamp, emitted, regAtOpen>>

\* A publish that stamps the record it finds and leaves the event in it.
TornPublish(key, type) ==
    /\ published < MaxPublishes
    /\ published' = published + 1
    /\ analysis_progress' =
          [k \in DOMAIN analysis_progress \cup {key} |->
              IF k # key
              THEN analysis_progress[k]
              ELSE IF key \in DOMAIN analysis_progress
              THEN [timestamp |-> published + 1, data |-> analysis_progress[key].data]
              ELSE [timestamp |-> published + 1,
                    data |-> [type |-> type, repo_name |-> key]]]
    /\ UNCHANGED <<pubState, repoName, retries, lastTimestamp, emitted, regAtOpen>>

\* A register that keeps the first record of a key.
KeepFirstPublish(key, type) ==
    /\ published < MaxPublishes
    /\ published' = published + 1
    /\ analysis_progress' =
          [k \in DOMAIN analysis_progress \cup {key} |->
              IF k \in DOMAIN analysis_progress
              THEN analysis_progress[k]
              ELSE [timestamp |-> published + 1,
                    data |-> [type |-> type, repo_name |-> key]]]
    /\ UNCHANGED <<pubState, repoName, retries, lastTimestamp, emitted, regAtOpen>>

\* publish(key, event): the record for key is replaced by {now(), event}.
Publish(key, type) ==
    /\ published < MaxPublishes
    /\ published' = published + 1
    /\ analysis_progress' =
          [k \in DOMAIN analysis_progress \cup {key} |->
              IF k = key
              THEN [timestamp |-> published + 1,
                    data |-> [type |-> type, repo_name |-> key]]
              ELSE analysis_progress[k]]
    /\ UNCHANGED <<pubState, repoName, retries, lastTimestamp, emitted, regAtOpen>>

\* peek(key): the record the Register holds for key, or absent.
NoRecord == [timestamp |-> 0, data |-> NoData]
peek(key) ==
    IF key \in DOMAIN analysis_progress THEN analysis_progress[key] ELSE NoRecord

\* A connection that says nothing when it opens.
SilentOpen(repo_name) ==
    /\ pubState = "idle"
    /\ pubState' = "open"
    /\ repoName' = repo_name
    /\ retries' = 0
    /\ lastTimestamp' = 0
    /\ emitted' = <<>>
    /\ regAtOpen' = (repo_name \in DOMAIN analysis_progress)
    /\ UNCHANGED <<analysis_progress, published>>

\* A connection that starts from the record it finds and waits for the next.
FromNowOpen(repo_name) ==
    /\ pubState = "idle"
    /\ pubState' = "open"
    /\ repoName' = repo_name
    /\ retries' = 0
    /\ lastTimestamp' = IF repo_name \in DOMAIN analysis_progress
                        THEN analysis_progress[repo_name].timestamp ELSE 0
    /\ emitted' = <<ConnectedEvent(repo_name)>>
    /\ regAtOpen' = (repo_name \in DOMAIN analysis_progress)
    /\ UNCHANGED <<analysis_progress, published>>

\* The request arrives: event_generator starts and yields connected.
OpenStream(repo_name) ==
    /\ pubState = "idle"
    /\ pubState' = "open"
    /\ repoName' = repo_name
    /\ retries' = 0
    /\ lastTimestamp' = 0
    /\ emitted' = <<ConnectedEvent(repo_name)>>
    /\ regAtOpen' = (repo_name \in DOMAIN analysis_progress)
    /\ UNCHANGED <<analysis_progress, published>>

\* What one pass of the polling loop writes and whether it ends the stream:
\* peek, deliver a newer record, stream_end after analysis_complete, timeout
\* once max_retries ticks have elapsed.
Poll(repo_name, last, out, ticks, limit) ==
    LET has      == repo_name \in DOMAIN analysis_progress
        newer    == has /\ analysis_progress[repo_name].timestamp > last
        complete == newer /\ analysis_progress[repo_name].data.type = "analysis_complete"
        out1     == IF newer
                    THEN Append(out, analysis_progress[repo_name].data)
                    ELSE out
        out2     == IF complete THEN Append(out1, StreamEnd) ELSE out1
        timedOut == ~complete /\ ticks + 1 >= limit
    IN  [emitted  |-> IF timedOut THEN Append(out2, Timeout) ELSE out2,
         last     |-> IF newer THEN analysis_progress[repo_name].timestamp
                      ELSE last,
         closed   |-> complete \/ timedOut]

\* The poll of the first connection.
PollResult(limit) == Poll(repoName, lastTimestamp, emitted, retries, limit)

\* A loop that gives up one tick early.
EarlyTick ==
    /\ pubState = "open"
    /\ retries < max_retries
    /\ LET r == PollResult(max_retries - 1)
       IN  /\ emitted' = r.emitted
           /\ lastTimestamp' = r.last
           /\ pubState' = IF r.closed THEN "closed" ELSE "open"
    /\ retries' = retries + 1
    /\ UNCHANGED <<analysis_progress, published, repoName, regAtOpen>>

\* A loop that only breaks after analysis_complete, without stream_end.
BreakOnlyTick ==
    /\ pubState = "open"
    /\ retries < max_retries
    /\ LET r == PollResult(max_retries)
           last == r.emitted[Len(r.emitted)]
       IN  /\ emitted' = IF last = StreamEnd
                         THEN SubSeq(r.emitted, 1, Len(r.emitted) - 1)
                         ELSE r.emitted
           /\ lastTimestamp' = r.last
           /\ pubState' = IF r.closed THEN "closed" ELSE "open"
    /\ retries' = retries + 1
    /\ UNCHANGED <<analysis_progress, published, repoName, regAtOpen>>

\* A loop that takes the record out of the Register when it delivers it.
ConsumingTick ==
    /\ pubState = "open"
    /\ retries < max_retries
    /\ LET r == PollResult(max_retries)
       IN  /\ emitted' = r.emitted
           /\ lastTimestamp' = r.last
           /\ pubState' = IF r.closed THEN "closed" ELSE "open"
           /\ analysis_progress' =
                 IF r.last # lastTimestamp
                 THEN [k \in DOMAIN analysis_progress \ {repoName} |-> analysis_progress[k]]
                 ELSE analysis_progress
    /\ retries' = retries + 1
    /\ UNCHANGED <<published, repoName, regAtOpen>>

\* A loop without the timeout: while True, as long as nothing completes.
EndlessTick ==
    /\ pubState = "open"
    /\ LET r == PollResult(max_retries + 1)
       IN  /\ emitted' = r.emitted
           /\ lastTimestamp' = r.last
           /\ pubState' = IF r.closed THEN "closed" ELSE "open"
    /\ retries' = IF retries < max_retries - 1 THEN retries + 1 ELSE retries
    /\ UNCHANGED <<analysis_progress, published, repoName, regAtOpen>>

\* A loop that writes the record it finds on every tick.
ReemitTick ==
    /\ pubState = "open"
    /\ retries < max_retries
    /\ LET r == PollResult(max_retries)
           has == repoName \in DOMAIN analysis_progress
           stale == has /\ r.last = lastTimestamp
       IN  /\ emitted' = IF stale /\ ~r.closed
                         THEN Append(emitted, analysis_progress[repoName].data)
                         ELSE r.emitted
           /\ lastTimestamp' = r.last
           /\ pubState' = IF r.closed THEN "closed" ELSE "open"
    /\ retries' = retries + 1
    /\ UNCHANGED <<analysis_progress, published, repoName, regAtOpen>>

\* A loop that delivers the newest record of the Register, whatever its key.
AnyKeyTick ==
    /\ pubState = "open"
    /\ retries < max_retries
    /\ LET r == PollResult(max_retries)
           newest == IF analysis_progress = <<>> THEN NoRecord
                     ELSE analysis_progress[CHOOSE k \in DOMAIN analysis_progress :
                              \A j \in DOMAIN analysis_progress :
                                  analysis_progress[j].timestamp
                                      <= analysis_progress[k].timestamp]
           other == newest.timestamp > r.last /\ ~r.closed
       IN  /\ emitted' = IF other THEN Append(r.emitted, newest.data) ELSE r.emitted
           /\ lastTimestamp' = IF other THEN newest.timestamp ELSE r.last
           /\ pubState' = IF r.closed THEN "closed" ELSE "open"
    /\ retries' = retries + 1
    /\ UNCHANGED <<analysis_progress, published, repoName, regAtOpen>>

\* A loop that reports a timeout on its last tick even after stream_end.
AlwaysTimeoutTick ==
    /\ pubState = "open"
    /\ retries < max_retries
    /\ LET r == PollResult(max_retries)
       IN  /\ emitted' = IF retries + 1 >= max_retries
                            /\ r.emitted[Len(r.emitted)] # Timeout
                         THEN Append(r.emitted, Timeout)
                         ELSE r.emitted
           /\ lastTimestamp' = r.last
           /\ pubState' = IF r.closed THEN "closed" ELSE "open"
    /\ retries' = retries + 1
    /\ UNCHANGED <<analysis_progress, published, repoName, regAtOpen>>

\* A loop that tests the retry count before it looks at the Register.
TimeoutFirstTick ==
    /\ pubState = "open"
    /\ retries < max_retries
    /\ LET r == PollResult(max_retries)
           expired == retries + 1 >= max_retries
       IN  /\ emitted' = IF expired THEN Append(emitted, Timeout) ELSE r.emitted
           /\ lastTimestamp' = IF expired THEN lastTimestamp ELSE r.last
           /\ pubState' = IF expired \/ r.closed THEN "closed" ELSE "open"
    /\ retries' = retries + 1
    /\ UNCHANGED <<analysis_progress, published, repoName, regAtOpen>>

\* One tick of the polling loop: the poll, then the one second sleep.
Tick ==
    /\ pubState = "open"
    /\ retries < max_retries
    /\ LET r == PollResult(max_retries)
       IN  /\ emitted' = r.emitted
           /\ lastTimestamp' = r.last
           /\ pubState' = IF r.closed THEN "closed" ELSE "open"
    /\ retries' = retries + 1
    /\ UNCHANGED <<analysis_progress, published, repoName, regAtOpen>>

\* The client of the first connection goes away (close(), a dropped socket):
\* the server abandons event_generator where it stands.
Disconnect ==
    /\ pubState = "open"
    /\ pubState' = "gone"
    /\ UNCHANGED <<analysis_progress, published, repoName, retries, lastTimestamp,
                   emitted, regAtOpen>>

\* A second request arrives: its own event_generator starts and yields
\* connected.
PeerOpen(repo_name) ==
    /\ peerState = "idle"
    /\ peerState' = "open"
    /\ peerRepo' = repo_name
    /\ peerRetries' = 0
    /\ peerLast' = 0
    /\ peerEmitted' = <<ConnectedEvent(repo_name)>>

\* One tick of the second connection's polling loop.
PeerTick ==
    /\ peerState = "open"
    /\ peerRetries < max_retries
    /\ LET r == Poll(peerRepo, peerLast, peerEmitted, peerRetries, max_retries)
       IN  /\ peerEmitted' = r.emitted
           /\ peerLast' = r.last
           /\ peerState' = IF r.closed THEN "closed" ELSE "open"
    /\ peerRetries' = peerRetries + 1
    /\ UNCHANGED peerRepo

\* The client of the second connection goes away.
PeerDisconnect ==
    /\ peerState = "open"
    /\ peerState' = "gone"
    /\ UNCHANGED <<peerRepo, peerRetries, peerLast, peerEmitted>>

(***************************************************************************)
(* Specifications                                                          *)
(***************************************************************************)
ClassifyStep ==
    Classify /\ UNCHANGED <<dashVars, lifeVars, histVars, opVars, pubVars, logVars, peerVars,
                                importVars>>
PermuteStep ==
    ClassifyPermuted /\ UNCHANGED <<dashVars, lifeVars, histVars, opVars, pubVars, logVars, peerVars,
                                importVars>>

InitClassify == ClsInit /\ DashIdle /\ PubInit /\ ImportIdle
NextClassify == ClassifyStep \/ PermuteStep
SpecClassify == InitClassify /\ [][NextClassify]_vars

MergeStep == Deliver /\ UNCHANGED <<importVars, clsVars, pubVars, logVars, peerVars>>
HistStep  == DeliverRecorded /\ UNCHANGED <<importVars, clsVars, pubVars, logVars, peerVars>>

InitMerge == ClsIdle /\ DashInit /\ PubInit /\ ImportIdle
NextMerge == MergeStep
SpecMerge == InitMerge /\ [][NextMerge]_vars

NextHist == HistStep
SpecHist == InitMerge /\ [][NextHist]_vars

PublishStep ==
    \E key \in RepoNames, type \in ProducerTypes :
        Publish(key, type) /\ UNCHANGED <<importVars, clsVars, dashVars, lifeVars, histVars, opVars, logVars, peerVars>>
OpenStep ==
    \E repo_name \in RepoNames :
        OpenStream(repo_name) /\ UNCHANGED <<importVars, clsVars, dashVars, lifeVars, histVars, opVars, logVars, peerVars>>
TickStep == Tick /\ UNCHANGED <<importVars, clsVars, dashVars, lifeVars, histVars, opVars, logVars, peerVars>>

InitPub == ClsIdle /\ DashIdle /\ PubInit /\ ImportIdle
NextPub == PublishStep \/ OpenStep \/ TickStep
SpecPub == InitPub /\ [][NextPub]_vars

\* The publisher with its loop scheduled: asyncio resumes event_generator
\* after every sleep, so a tick that stays possible is eventually taken.
SpecPubFair == InitPub /\ [][NextPub]_vars /\ WF_vars(TickStep)

\* The Dashboard from mount to unmount.
FetchOkStep ==
    \E snapshot \in Snapshots :
        /\ FetchSucceeds(snapshot)
        /\ lastOp' = "fetchOk"
        /\ teardowns' = [c \in DOMAIN esOpen' |->
                            IF c \in DOMAIN teardowns THEN teardowns[c] ELSE 0]
        /\ UNCHANGED <<completions, ignored, importVars, clsVars, histVars, pubVars, logVars, peerVars>>
FetchFailStep ==
    \E message \in FetchErrors :
        /\ FetchFails(message)
        /\ lastOp' = "fetchFail"
        /\ teardowns' = [c \in DOMAIN esOpen' |->
                            IF c \in DOMAIN teardowns THEN teardowns[c] ELSE 0]
        /\ UNCHANGED <<completions, ignored, importVars, clsVars, histVars, pubVars, logVars, peerVars>>
MessageStep ==
    \E c \in DOMAIN esOpen, payload \in LifePayloads :
        /\ OnMessage(c, payload)
        /\ MessageHistory(c, payload)
        /\ UNCHANGED <<importVars, clsVars, histVars, pubVars, logVars, peerVars>>
ErrorStep ==
    \E c \in DOMAIN esOpen :
        /\ OnError(c)
        /\ lastOp' = "error"
        /\ teardowns' = [teardowns EXCEPT ![c] = @ + 1]
        /\ UNCHANGED <<completions, ignored, importVars, clsVars, histVars, pubVars, logVars, peerVars>>
UnmountStep ==
    /\ Unmount
    /\ lastOp' = "unmount"
    /\ teardowns' = [c \in DOMAIN teardowns |-> teardowns[c] + 1]
    /\ UNCHANGED <<completions, ignored, importVars, clsVars, histVars, pubVars, logVars, peerVars>>
DropStep ==
    \E c \in DOMAIN esOpen, payload \in LifePayloads :
        DropMessage(c, payload) /\ UNCHANGED <<importVars, clsVars, histVars, pubVars, logVars, peerVars>>

InitDash == ClsIdle /\ DashMounted /\ PubInit /\ ImportIdle
NextDash ==
    FetchOkStep \/ FetchFailStep \/ MessageStep \/ ErrorStep \/ UnmountStep \/ DropStep
SpecDash == InitDash /\ [][NextDash]_vars

\* The Dashboard with its stream connected, when connectToSSE runs again on
\* the same instance (the mount effect and its fetchGraph run more than once).
ReconnectStep ==
    /\ Len(esOpen) < MaxConnections
    /\ ConnectToSSE
    /\ lastOp' = "connect"
    /\ teardowns' = Append(IF eventSourceRef # 0
                           THEN [teardowns EXCEPT ![eventSourceRef] = @ + 1]
                           ELSE teardowns, 0)
    /\ UNCHANGED <<nodes, rlmInProgress, lsRlmInProgress, lastData, repeated, edges,
                   loading, error, mounted, fetchPc, rlmStatus>>
    /\ UNCHANGED <<completions, ignored, importVars, clsVars, histVars, pubVars, logVars, peerVars>>

\* The messages followed while the connection is replaced: the two the
\* handler tells apart from a batch (analysis_complete, a malformed one) and
\* one it only logs.
ConnPayloads ==
    {e \in PlainEvents : e.type \in {"analysis_complete", "rlm_started"}}
        \cup {Malformed}

ConnMessageStep ==
    \E c \in DOMAIN esOpen, payload \in ConnPayloads :
        /\ OnMessage(c, payload)
        /\ MessageHistory(c, payload)
        /\ UNCHANGED <<importVars, clsVars, histVars, pubVars, logVars, peerVars>>
ConnDropStep ==
    \E c \in DOMAIN esOpen, payload \in ConnPayloads :
        DropMessage(c, payload) /\ UNCHANGED <<importVars, clsVars, histVars, pubVars, logVars, peerVars>>

InitConn == ClsIdle /\ DashInit /\ PubInit /\ ImportIdle
NextConn == ReconnectStep \/ ConnMessageStep \/ ErrorStep \/ UnmountStep \/ ConnDropStep
SpecConn == InitConn /\ [][NextConn]_vars

\* RepoImport from mount to unmount, with up to MaxClicks invocations of
\* startAnalysis.
ClickStep ==
    /\ clicks < MaxClicks
    /\ StartAnalysis
    /\ clicks' = clicks + 1
    /\ lastClick' = IF analysisStarted THEN "ignored" ELSE "issued"
    /\ UNCHANGED <<clsVars, dashVars, lifeVars, histVars, opVars, pubVars, logVars, peerVars>>
ResolveStep ==
    \E i \in DOMAIN calls, repo_name \in RepoNames :
        /\ AnalyzeResolves(i, repo_name)
        /\ UNCHANGED <<clicks, lastClick>>
        /\ UNCHANGED <<clsVars, dashVars, lifeVars, histVars, opVars, pubVars, logVars, peerVars>>
RejectStep ==
    \E i \in DOMAIN calls, message \in ImportErrors :
        /\ AnalyzeRejects(i, message)
        /\ UNCHANGED <<clicks, lastClick>>
        /\ UNCHANGED <<clsVars, dashVars, lifeVars, histVars, opVars, pubVars, logVars, peerVars>>
DelayStep ==
    \E i \in DOMAIN calls :
        /\ DelayElapses(i)
        /\ UNCHANGED <<clicks, lastClick>>
        /\ UNCHANGED <<clsVars, dashVars, lifeVars, histVars, opVars, pubVars, logVars, peerVars>>
NavigateStep ==
    \E i \in DOMAIN calls :
        /\ Navigate(i)
        /\ UNCHANGED <<clicks, lastClick>>
        /\ UNCHANGED <<clsVars, dashVars, lifeVars, histVars, opVars, pubVars, logVars, peerVars>>
ImportUnmountStep ==
    /\ ImportUnmount
    /\ UNCHANGED <<clicks, lastClick>>
    /\ UNCHANGED <<clsVars, dashVars, lifeVars, histVars, opVars, pubVars, logVars, peerVars>>

InitImport == ClsIdle /\ DashIdle /\ PubInit /\ ImportMounted
NextImport ==
    \/ ClickStep \/ ResolveStep \/ RejectStep \/ DelayStep \/ NavigateStep
    \/ ImportUnmountStep
SpecImport == InitImport /\ [][NextImport]_vars

\* The publisher with the histories of what was published and delivered.
PublishLogged ==
    \E key \in RepoNames, type \in ProducerTypes :
        /\ Publish(key, type)
        /\ publishLog' = Append(publishLog, [key |-> key, type |-> type])
        /\ UNCHANGED <<importVars, clsVars, dashVars, lifeVars, histVars, opVars, deliveredTs, peerVars>>
OpenLogged ==
    \E repo_name \in RepoNames :
        OpenStream(repo_name)
        /\ UNCHANGED <<importVars, clsVars, dashVars, lifeVars, histVars, opVars, logVars, peerVars>>
TickLogged ==
    /\ Tick
    /\ deliveredTs' =
          IF /\ Len(emitted') > Len(emitted)
             /\ emitted'[Len(emitted) + 1].type \in ProducerTypes
          THEN Append(deliveredTs, lastTimestamp')
          ELSE deliveredTs
    /\ UNCHANGED <<importVars, clsVars, dashVars, lifeVars, histVars, opVars, publishLog, peerVars>>

NextPubLog == PublishLogged \/ OpenLogged \/ TickLogged
SpecPubLog == InitPub /\ [][NextPubLog]_vars

\* The repository the second connection asks for: the first connection asks
\* for the same one or for another.
PeerRepoNames == {"flask"}

\* The producer and two connections.  Both loops sleep one second per pass:
\* once both connections exist, neither runs more than MaxSkew ticks ahead of
\* where the other stands or stopped.
InStep(mine, other, otherState) == otherState # "idle" => mine - other <= MaxSkew

PairPublishStep ==
    \E key \in RepoNames, type \in ProducerTypes :
        /\ published < MaxPairPublishes
        /\ Publish(key, type)
        /\ UNCHANGED <<importVars, clsVars, dashVars, lifeVars, histVars, opVars, logVars, peerVars>>
PairOpenStep ==
    \E repo_name \in RepoNames :
        /\ InStep(peerRetries, 0, peerState)
        /\ OpenStream(repo_name)
        /\ UNCHANGED <<importVars, clsVars, dashVars, lifeVars, histVars, opVars, logVars, peerVars>>
PairTickStep ==
    /\ InStep(retries + 1, peerRetries, peerState)
    /\ Tick
    /\ UNCHANGED <<importVars, clsVars, dashVars, lifeVars, histVars, opVars, logVars, peerVars>>
DisconnectStep ==
    /\ Disconnect
    /\ UNCHANGED <<importVars, clsVars, dashVars, lifeVars, histVars, opVars, logVars, peerVars>>
PeerOpenStep ==
    \E repo_name \in PeerRepoNames :
        /\ InStep(retries, 0, pubState)
        /\ PeerOpen(repo_name)
        /\ UNCHANGED <<importVars, clsVars, dashVars, lifeVars, histVars, opVars, pubVars, logVars>>
PeerTickStep ==
    /\ InStep(peerRetries + 1, retries, pubState)
    /\ PeerTick
    /\ UNCHANGED <<importVars, clsVars, dashVars, lifeVars, histVars, opVars, pubVars, logVars>>
PeerDisconnectStep ==
    /\ PeerDisconnect
    /\ UNCHANGED <<importVars, clsVars, dashVars, lifeVars, histVars, opVars, pubVars, logVars>>

NextPubPair ==
    \/ PairPublishStep \/ PairOpenStep \/ PairTickStep \/ DisconnectStep
    \/ PeerOpenStep \/ PeerTickStep \/ PeerDisconnectStep
SpecPubPair == InitPub /\ [][NextPubPair]_vars

(***************************************************************************)
(* Properties                                                              *)
(***************************************************************************)
HasLabel(issues, label) == \E i \in DOMAIN issues : issues[i].severity = label

\* The message processed last was a batch_complete that carried issues_by_file.
BatchProcessed == lastData.type = "batch_complete" /\ lastData.has_issues_by_file

\* C1: after any sequence of batch_complete events, each node's severity is
\* classify of the issue list that the most recent event holding the node's
\* canonical path stored under it; later events without the path change nothing.
C1_LastCoverDecides ==
    \A i \in DOMAIN nodes :
        lastIssues[i] # NoList =>
            nodes[i].severity = getSeverityFromIssues(lastIssues[i])

\* C2: a batch_complete leaves every node whose canonical path is not a key of
\* its issues_by_file entirely unchanged.
C2_UncoveredUnchanged ==
    [][\A i \in DOMAIN nodes :
          (/\ lastData'.type = "batch_complete"
           /\ Canon(nodes[i].path) \notin DOMAIN lastData'.issues_by_file)
          => nodes'[i] = nodes[i]]_vars

\* C3: delivering the same event a second time, right after the first, leaves
\* the nodes exactly as the first delivery left them.
C3_RedeliveryNoOp ==
    [][lastData' = lastData => nodes' = nodes]_vars

C3_Witness ==
    /\ repeated
    /\ BatchProcessed
    /\ \E i \in DOMAIN nodes :
          /\ Canon(nodes[i].path) \in DOMAIN lastData.issues_by_file
          /\ nodes[i].issues = 2

\* C4: a node whose canonical path is a key of the batch's issues_by_file is
\* set from the issue list alone: a non-empty list gives classify(issues), its
\* length and the first description; an empty list gives green and 0.
C4_CoveredNodeSet ==
    BatchProcessed =>
        \A i \in DOMAIN nodes :
            Canon(nodes[i].path) \in DOMAIN lastData.issues_by_file =>
                LET fileIssues == lastData.issues_by_file[Canon(nodes[i].path)]
                IN  IF Len(fileIssues) > 0
                    THEN /\ nodes[i].severity = getSeverityFromIssues(fileIssues)
                         /\ nodes[i].issues = Len(fileIssues)
                         /\ nodes[i].topIssue = fileIssues[1].description
                    ELSE /\ nodes[i].severity = "green"
                         /\ nodes[i].issues = 0

\* src/app.py covered by the single high issue 'SQL injection risk', and the
\* other node by a list whose first and last issues differ.
C4_Witness ==
    /\ BatchProcessed
    /\ DOMAIN lastData.issues_by_file = {KeyABC, KeyApp}
    /\ lastData.issues_by_file[KeyApp] = <<IssueSql>>
    /\ lastData.issues_by_file[KeyABC] = <<IssueLow, IssueSql>>
    /\ nodes[2].severity = "red"
    /\ nodes[2].issues = 1
    /\ nodes[2].topIssue = "SQL injection risk"
    /\ nodes[1].topIssue = "unused import"

\* C5: classify gives purple if any issue is critical, else red if any is
\* high, else orange if any is medium, else yellow if the list is non-empty,
\* and green if it is empty; it never gives gray.
C5_Precedence ==
    clsOut # "none" =>
        /\ clsOut # "gray"
        /\ HasLabel(clsIn, "critical") => clsOut = "purple"
        /\ (~HasLabel(clsIn, "critical") /\ HasLabel(clsIn, "high")) => clsOut = "red"
        /\ (/\ ~HasLabel(clsIn, "critical")
            /\ ~HasLabel(clsIn, "high")
            /\ HasLabel(clsIn, "medium")) => clsOut = "orange"
        /\ (/\ ~HasLabel(clsIn, "critical")
            /\ ~HasLabel(clsIn, "high")
            /\ ~HasLabel(clsIn, "medium")
            /\ Len(clsIn) > 0) => clsOut = "yellow"
        /\ Len(clsIn) = 0 => clsOut = "green"

C5_Witness ==
    /\ clsOut = "purple"
    /\ Len(clsIn) = 3
    /\ clsIn[1].severity = "high"
    /\ clsIn[2].severity = "low"
    /\ clsIn[3].severity = "critical"

\* C6: every reordering of an issue list is classified as the list is.
C6_OrderIndependent ==
    (clsOut # "none" /\ clsPermOut # "none") => clsPermOut = clsOut

C6_Witness ==
    /\ clsOut = "red"
    /\ clsPermOut = "red"
    /\ Len(clsIn) = 3
    /\ clsIn[1].severity = "medium"
    /\ clsPerm[1].severity = "high"

\* The key names the node's file with forward slashes where the node's path
\* has either separator.
SameFile(path, key) ==
    /\ Len(path) = Len(key)
    /\ \A j \in DOMAIN path :
          \/ key[j] = path[j] /\ key[j] # "\\"
          \/ key[j] = "/" /\ path[j] = "\\"

\* C7: a node whose path has backslash separators is matched by the batch key
\* that names the same file with forward slashes: the key's issues are merged
\* into the node.
C7_BackslashNodeMatched ==
    BatchProcessed =>
        \A i \in DOMAIN nodes :
            \A key \in DOMAIN lastData.issues_by_file :
                SameFile(nodes[i].path, key) =>
                    /\ nodes[i].issues = Len(lastData.issues_by_file[key])
                    /\ Len(lastData.issues_by_file[key]) > 0 =>
                          nodes[i].topIssue = lastData.issues_by_file[key][1].description

C7_Witness ==
    /\ BatchProcessed
    /\ DOMAIN lastData.issues_by_file = {KeyABC}
    /\ nodes[1].path = PathABC
    /\ lastData.issues_by_file[KeyABC] = <<IssueSql, IssueLow>>
    /\ nodes[1].severity = "red"
    /\ nodes[1].issues = 2

Delivered(type) == \E i \in DOMAIN emitted : emitted[i].type = type

DeliveredRecords == SelectSeq(emitted, LAMBDA e : e.type \in ProducerTypes)

C12_PeekMostRecent ==
    \A key \in RepoNames :
        LET pubs == {i \in DOMAIN publishLog : publishLog[i].key = key}
        IN  IF pubs = {}
            THEN peek(key) = NoRecord /\ key \notin DOMAIN analysis_progress
            ELSE LET last == CHOOSE i \in pubs : \A j \in pubs : j <= i
                 IN  /\ peek(key) # NoRecord
                     /\ peek(key).timestamp = last
                     /\ peek(key).data = [type |-> publishLog[last].type,
                                          repo_name |-> key]

\* flask published twice with different events, django never.
C12_Witness ==
    /\ Len(publishLog) = 3
    /\ publishLog[1] = [key |-> "flask", type |-> "batch_complete"]
    /\ publishLog[3] = [key |-> "flask", type |-> "analysis_complete"]
    /\ publishLog[2].key = "flask"
    /\ peek("flask").data.type = "analysis_complete"
    /\ peek("django") = NoRecord

\* The terminal events written to the connection.
TerminalEvents == SelectSeq(emitted, LAMBDA e : e \in {StreamEnd, Timeout})

C16_DeliveredInPublishOrder ==
    /\ Len(DeliveredRecords) = Len(deliveredTs)
    /\ \A i \in DOMAIN deliveredTs :
          /\ deliveredTs[i] \in DOMAIN publishLog
          /\ publishLog[deliveredTs[i]].key = repoName
          /\ DeliveredRecords[i] = [type |-> publishLog[deliveredTs[i]].type,
                                    repo_name |-> repoName]
    /\ \A i, j \in DOMAIN deliveredTs : i < j => deliveredTs[i] < deliveredTs[j]

\* Two of flask's three publishes delivered, one skipped between two ticks.
C16_Witness ==
    /\ repoName = "flask"
    /\ deliveredTs = <<1, 3>>
    /\ publishLog[2] = [key |-> "flask", type |-> "analysis_complete"]
    /\ DeliveredRecords[1].type = "batch_complete"
    /\ DeliveredRecords[2].type = "batch_complete"

\* No connection of the Dashboard is open.
NoneOpen == \A c \in DOMAIN esOpen : ~esOpen[c]

\* C13: termination is idempotent: when analysis_complete is delivered and a
\* duplicate follows, the handler processes one termination and close() is
\* called once on the connection; the duplicate is not processed.
C13_TeardownOnce ==
    completions >= 1 =>
        /\ completions = 1
        /\ \A c \in DOMAIN closeCalls : closeCalls[c] = 1 /\ ~esOpen[c]

\* analysis_complete was processed and a second one reached the closed stream.
C13_Witness ==
    /\ completions = 1
    /\ lastData.type = "analysis_complete"
    /\ ignored.type = "analysis_complete"
    /\ lastOp = "drop"
    /\ closeCalls = <<1>>

\* C14: once analysis_complete has been processed the session is marked
\* finished, the connection handle is released, and no later step changes any
\* node.
C14_FinishedStaysFinished ==
    /\ [](completions >= 1 =>
            /\ ~rlmInProgress
            /\ lsRlmInProgress = "false"
            /\ eventSourceRef = 0
            /\ NoneOpen)
    /\ [][completions >= 1 => nodes' = nodes]_vars

\* A batch naming src/app.py arrived after analysis_complete; the node kept
\* the state it had.
C14_Witness ==
    /\ completions = 1
    /\ lastOp = "drop"
    /\ ignored.type = "batch_complete"
    /\ ignored.has_issues_by_file
    /\ DOMAIN ignored.issues_by_file = {KeyApp}
    /\ ignored.issues_by_file[KeyApp] = <<IssueSql>>
    /\ nodes[2].severity = "yellow"
    /\ nodes[2].topIssue = "legacy finding"

\* C17: a connection is closed at most once, and exactly once as soon as one
\* of analysis_complete, a transport error or the unmount has run on it; a
\* second of these paths on the released connection closes nothing.
C17_ReleasedExactlyOnce ==
    \A c \in DOMAIN closeCalls :
        /\ closeCalls[c] <= 1
        /\ teardowns[c] >= 1 => (closeCalls[c] = 1 /\ ~esOpen[c])

\* A transport error released the connection, then the Dashboard unmounted.
C17_Witness ==
    /\ teardowns = <<2>>
    /\ closeCalls = <<1>>
    /\ completions = 0
    /\ lastOp = "unmount"
    /\ ~mounted

C19_MalformedSkipped ==
    /\ [][(lastOp' = "message" /\ lastData' = Malformed) =>
            /\ nodes' = nodes
            /\ edges' = edges
            /\ esOpen' = esOpen
            /\ closeCalls' = closeCalls
            /\ eventSourceRef' = eventSourceRef
            /\ rlmInProgress' = rlmInProgress]_vars
    /\ []((lastOp = "message" /\ lastData = Malformed) =>
            /\ eventSourceRef # 0
            /\ esOpen[eventSourceRef]
            /\ ENABLED MessageStep)

\* The malformed message came after a batch had turned src/app.py red.
C19_Witness ==
    /\ lastOp = "message"
    /\ lastData = Malformed
    /\ nodes[2].severity = "red"
    /\ esOpen = <<TRUE>>
    /\ eventSourceRef = 1

\* C20: when the snapshot fetch has failed, no connection was opened and none
\* is opened afterwards.
C20_NoStreamAfterFailedFetch ==
    fetchPc = "failed" => (esOpen = <<>> /\ eventSourceRef = 0)

\* The fetch failed while localStorage said the analysis was in progress, and
\* the Dashboard lived on until it unmounted.
C20_Witness ==
    /\ fetchPc = "failed"
    /\ rlmStatus = "true"
    /\ error = "Graph not found"
    /\ nodes = MockNodes
    /\ lastOp = "unmount"
    /\ esOpen = <<>>

\* The Register after publish(key, event) at the producer's next clock value.
Replaced(key, type) ==
    [k \in DOMAIN analysis_progress \cup {key} |->
        IF k = key
        THEN [timestamp |-> published + 1, data |-> [type |-> type, repo_name |-> key]]
        ELSE analysis_progress[k]]

\* C21: whatever the two connections do (open, poll, time out, close, go
\* away), the producer can publish, the Register changes only by a publish,
\* and a publish writes the record it would write with no connection at all.
C21_ProducerUnaffected ==
    /\ [](published < MaxPairPublishes => ENABLED PairPublishStep)
    /\ [][IF published' = published
          THEN analysis_progress' = analysis_progress
          ELSE /\ published' = published + 1
               /\ \E key \in RepoNames, type \in ProducerTypes :
                     analysis_progress' = Replaced(key, type)]_vars

\* The first connection timed out, the second client went away, and the
\* producer published after both.
C21_Witness ==
    /\ pubState = "closed"
    /\ emitted[Len(emitted)] = Timeout
    /\ peerState = "gone"
    /\ peek(repoName).timestamp > lastTimestamp
    /\ peek(repoName).timestamp > peerLast

PeerDelivered == SelectSeq(peerEmitted, LAMBDA e : e.type \in ProducerTypes)

\* C26: no step of a connection (open, poll, close, going away) changes the
\* Register, a step of one connection leaves the other connection as it was,
\* and two connections to one repository that last delivered the same
\* timestamp delivered the same record.
C26_PollsLeaveRegister ==
    /\ [][published' = published => analysis_progress' = analysis_progress]_vars
    /\ [][(\/ <<pubState, retries, lastTimestamp, emitted>>'
               # <<pubState, retries, lastTimestamp, emitted>>
           \/ peerVars' # peerVars)
          => /\ published' = published
             /\ \A key \in RepoNames : peek(key)' = peek(key)]_vars
    /\ [][<<pubState, retries, lastTimestamp, emitted>>'
              # <<pubState, retries, lastTimestamp, emitted>>
          => peerVars' = peerVars]_vars
    /\ [][peerVars' # peerVars
          => <<pubState, retries, lastTimestamp, emitted>>'
                = <<pubState, retries, lastTimestamp, emitted>>]_vars
    /\ []((repoName = peerRepo /\ lastTimestamp = peerLast /\ peerLast > 0)
          => DeliveredRecords[Len(DeliveredRecords)]
                = PeerDelivered[Len(PeerDelivered)])

\* Both connections follow flask and each delivered the record published
\* first, one of them a tick later than the other.
C26_Witness ==
    /\ repoName = "flask"
    /\ peerRepo = "flask"
    /\ pubState = "open"
    /\ peerState = "open"
    /\ lastTimestamp = 1
    /\ peerLast = 1
    /\ retries = 1
    /\ peerRetries = 2
    /\ emitted = peerEmitted
    /\ Len(emitted) = 2

\* The publishes made for key, as indexes of the log.
PublishesOf(key) == {i \in DOMAIN publishLog : publishLog[i].key = key}

\* The record publish number i stored.
RecordOf(i) ==
    [timestamp |-> i,
     data |-> [type |-> publishLog[i].type, repo_name |-> publishLog[i].key]]

\* C24: however many publishes precede a poll, the Register holds one record
\* per published key and no more, a poll that delivers writes one record, the
\* latest publish for the key, and deliveries only move forward, so a record
\* superseded before the poll is never delivered.
C24_LastWriteWins ==
    /\ [](/\ DOMAIN analysis_progress = {publishLog[i].key : i \in DOMAIN publishLog}
          /\ \A i, j \in DOMAIN deliveredTs : i < j => deliveredTs[i] < deliveredTs[j])
    /\ [][Len(deliveredTs') > Len(deliveredTs) =>
            LET ts == deliveredTs'[Len(deliveredTs')]
            IN  /\ Len(deliveredTs') = Len(deliveredTs) + 1
                /\ Len(DeliveredRecords') = Len(DeliveredRecords) + 1
                /\ ts \in PublishesOf(repoName)
                /\ \A i \in PublishesOf(repoName) : i <= ts
                /\ DeliveredRecords'[Len(DeliveredRecords')] = RecordOf(ts).data]_vars

\* Three publishes for flask before the first poll that saw any: only the
\* third was delivered.
C24_Witness ==
    /\ repoName = "flask"
    /\ PublishesOf("flask") = {1, 2, 3}
    /\ publishLog[1].type = "batch_complete"
    /\ publishLog[2].type = "analysis_complete"
    /\ publishLog[3].type = "batch_complete"
    /\ deliveredTs = <<3>>
    /\ retries >= 2
    /\ pubState = "open"

C23_BatchKeysCanonical ==
    BatchProcessed =>
        \A i \in DOMAIN nodes :
            \A key \in DOMAIN lastData.issues_by_file :
                Canon(key) = Canon(nodes[i].path) =>
                    LET fileIssues == lastData.issues_by_file[key]
                    IN  IF Len(fileIssues) > 0
                        THEN /\ nodes[i].severity = getSeverityFromIssues(fileIssues)
                             /\ nodes[i].issues = Len(fileIssues)
                             /\ nodes[i].topIssue = fileIssues[1].description
                        ELSE /\ nodes[i].severity = "green"
                             /\ nodes[i].issues = 0

\* What identifies a node: everything but severity, issues and topIssue.
Identity(node) == [id |-> node.id, path |-> node.path, folder |-> node.folder,
                   size |-> node.size]

\* C28: processing a batch_complete never adds, removes or reorders nodes,
\* never changes a node's id, path, folder or size, and never changes the
\* edges.
C28_IdentityKept ==
    [][lastData'.type = "batch_complete" =>
          /\ DOMAIN nodes' = DOMAIN nodes
          /\ \A i \in DOMAIN nodes :
                /\ Identity(nodes'[i]) = Identity(nodes[i])
                /\ DOMAIN nodes'[i] = DOMAIN nodes[i]
          /\ edges' = edges]_vars

\* A batch changed the severities of both nodes, a\b\c.py among them.
C28_Witness ==
    /\ BatchProcessed
    /\ DOMAIN lastData.issues_by_file = {KeyABC, KeyApp}
    /\ nodes[1].path = PathABC
    /\ nodes[1].folder = "a\\b"
    /\ nodes[1].severity = "red"
    /\ nodes[2].size = 2
    /\ nodes[2].severity = "yellow"
    /\ nodes[2].topIssue = "unused import"
    /\ edges = SnapshotEdges

\* C29: an event whose type is not batch_complete changes no node and no
\* edge, even when it carries an issues_by_file field.
C29_OtherEventsKeepNodes ==
    [][(Parses(lastData') /\ lastData'.type # "batch_complete") =>
          (nodes' = nodes /\ edges' = edges)]_vars

\* A graph_complete naming src/app.py with a high issue was processed and
\* the node stayed gray.
C29_Witness ==
    /\ lastData.type = "graph_complete"
    /\ lastData.has_issues_by_file
    /\ lastData.issues_by_file[KeyApp] = <<IssueSql>>
    /\ nodes[2].severity = "gray"
    /\ nodes[2].issues = 0

\* C27: the live stream is opened only in the step that applies the snapshot:
\* a connection exists only once the snapshot's nodes and edges are in place,
\* and every batch_complete is merged into the snapshot's nodes, never into
\* the empty node set the Dashboard starts with.
C27_StreamAfterSnapshot ==
    /\ [](esOpen # <<>> =>
            /\ fetchPc = "done"
            /\ Len(nodes) = 2
            /\ edges = SnapshotEdges)
    /\ [][Len(esOpen') > Len(esOpen) =>
            /\ fetchPc' = "done"
            /\ nodes' \in Snapshots
            /\ edges' = SnapshotEdges]_vars
    /\ [][(lastOp' = "message" /\ lastData'.type = "batch_complete") =>
            /\ fetchPc = "done"
            /\ nodes # <<>>]_vars

\* A batch was merged into the snapshot's node src/app.py.
C27_Witness ==
    /\ lastOp = "message"
    /\ BatchProcessed
    /\ fetchPc = "done"
    /\ esOpen = <<TRUE>>
    /\ nodes[2].id = "n2"
    /\ nodes[2].severity = "red"

\* C30: after a transport error that came before analysis_complete the
\* in-progress indicator no longer reports a live analysis.
C30_ErrorEndsIndicator ==
    (lastOp = "error" /\ completions = 0) => ~rlmInProgress

\* The connections of the Dashboard instance that are open.
OpenConnections == {c \in DOMAIN esOpen : esOpen[c]}

\* C31: a Dashboard instance holds at most one open stream connection at any
\* time, and the open one is the one eventSourceRef holds; connectToSSE
\* leaves every connection created before it closed.
C31_AtMostOneOpen ==
    /\ [](/\ Cardinality(OpenConnections) <= 1
          /\ \A c \in OpenConnections : eventSourceRef = c)
    /\ [][Len(esOpen') > Len(esOpen)
            => /\ \A c \in DOMAIN esOpen : ~esOpen'[c]
               /\ esOpen'[Len(esOpen')]]_vars

\* connectToSSE ran twice on a Dashboard that held an open connection each
\* time: both earlier connections were closed once, the third is open.
C31_Witness ==
    /\ lastOp = "connect"
    /\ esOpen = <<FALSE, FALSE, TRUE>>
    /\ closeCalls = <<1, 1, 0>>
    /\ eventSourceRef = 3

\* C32: after the Dashboard unmounted, no stream connection it opened is
\* open and none is opened later, also when the unmount came while getGraph
\* was pending and getGraph resolved afterwards.
C32_NoStreamAfterUnmount == ~mounted => NoneOpen

\* The connection closed after it wrote the record stamped t, an
\* analysis_complete, and stream_end.
FinalDelivered(t) ==
    /\ pubState = "closed"
    /\ lastTimestamp = t
    /\ Len(emitted) >= 2
    /\ emitted[Len(emitted) - 1].type = "analysis_complete"
    /\ emitted[Len(emitted)] = StreamEnd

\* C33: when the Register holds analysis_complete for the repository of an
\* open connection, the connection eventually delivers that record and
\* closes, unless the producer publishes for the repository again (the
\* record was then not its last); the timeout never takes its place and the
\* records dropped before it do not matter.
C33_FinalRecordDelivered ==
    \A t \in 1..MaxPublishes :
        (/\ pubState = "open"
         /\ peek(repoName).timestamp = t
         /\ peek(repoName).data.type = "analysis_complete")
            ~> (peek(repoName).timestamp > t \/ FinalDelivered(t))

\* The connection opened before the producer published; the producer
\* published MaxPublishes times for the repository between two polls, the
\* last one analysis_complete; the connection delivered only that one.
C33_Witness ==
    /\ ~regAtOpen
    /\ published = MaxPublishes
    /\ DOMAIN analysis_progress = {repoName}
    /\ FinalDelivered(MaxPublishes)
    /\ Len(emitted) = 3

Classified(node) ==
    /\ node.severity = "green" <=> node.issues = 0
    /\ node.severity # "gray"

\* C35: every node a batch_complete merge has written is green if and only
\* if its issue count is 0 and is never gray: the merge leaves each node so,
\* and no later message undoes it.
C35_GreenIffNoIssues ==
    [][\A i \in DOMAIN nodes :
          (BatchProcessed' \/ Classified(nodes[i])) => Classified(nodes'[i])]_vars

\* A batch with two issues for src/app.py and none for the other file: the
\* first node was reset to green with count 0, the second is coloured and
\* counts two.
C35_Witness ==
    /\ BatchProcessed
    /\ nodes[1].severity = "green" /\ nodes[1].issues = 0
    /\ nodes[2].issues = 2 /\ nodes[2].severity \in Tiers \ {"green", "gray"}

\* C36: a node whose issue count is 0 carries no topIssue: a merge that
\* resets a node that had issues to green with count 0 clears its topIssue.
C36_ResetClearsTopIssue ==
    \A i \in DOMAIN nodes : nodes[i].issues = 0 => nodes[i].topIssue = NoValue

\* The startAnalysis calls whose analyzeRepo request has not settled.
InFlight == {i \in DOMAIN calls : calls[i].pc = "awaiting"}

\* C37: a RepoImport instance keeps at most one analyzeRepo request in
\* flight: an invocation of startAnalysis made while a request is in flight
\* issues none, and a request is issued only when every earlier one has
\* failed.
C37_OneRequestInFlight ==
    /\ [](Cardinality(InFlight) <= 1)
    /\ [][clicks' = clicks + 1 /\ InFlight # {} => calls' = calls]_vars
    /\ [][Len(calls') > Len(calls)
            => \A i \in DOMAIN calls : calls[i].pc = "failed"]_vars

\* A click issued a request and the next was ignored; the request failed; a
\* third click issued a new request and a fourth was ignored.
C37_Witness ==
    /\ clicks = 4
    /\ lastClick = "ignored"
    /\ Len(calls) = 2
    /\ calls[1].pc = "failed"
    /\ calls[2].pc = "awaiting"
    /\ analysisStarted


====
